---------------------------- MODULE Spec2Model ----------------------------
(***************************************************************************)
(* Model of pages/nav/controle_vagas.py: the Streamlit page run(), its     *)
(* per-user CSV store (load_data / save_data) and the classification       *)
(* pipeline (prepare_features / train_model / predict).                    *)
(*                                                                         *)
(* Two levels are modelled on the same state:                              *)
(*   Spec      the page under Streamlit's rerun model: every interaction   *)
(*             re-executes run() from the top, and a button is True only   *)
(*             in the run its own click triggered;                         *)
(*   SpecPipe  train_model and predict called directly on bounded tables   *)
(*             and records, as a unit test would call them.                *)
(*                                                                         *)
(* Library calls are modelled by what pandas / scikit-learn do at the call *)
(* site.  Where the result depends on a seeded random generator            *)
(* (train_test_split, the forest's votes, the fold scores) the model takes *)
(* every outcome the call's contract allows.                               *)
(***************************************************************************)
EXTENDS Integers, Sequences, FiniteSets, TLC

VARIABLES
    build,      \* behaviour of the installed pandas that differs by version
    userId,     \* value of the 'Digite seu nome' widget
    file,       \* content of '<user_id>_vagas.csv', or NoFile
    initial,    \* rows the file held when the session started (history)
    added,      \* rows written by the successful add submissions (history)
    df,         \* run()'s local table df at the end of the last run
    trained,    \* what the last train_model call returned and reported
    pred,       \* what the last predict call did
    view,       \* widgets the last run rendered
    fields,     \* widget state of predict's six inputs
    screen,     \* messages the last run rendered, in order
    trigger,    \* the interaction that caused the last run
    crashed     \* an exception escaped run() in the last run

vars == <<build, userId, file, initial, added, df, trained, pred,
          view, fields, screen, trigger, crashed>>

-----------------------------------------------------------------------------
(* Bounds of the model *)

\* successful add submissions explored in one session
MaxAdds == 2
\* rows of a table handed directly to train_model
MaxRows == 6
\* a probability or accuracy is a multiple of 1/ProbSteps
ProbSteps == 4

-----------------------------------------------------------------------------
(* Columns and cells *)

COL_ID       == "ID"
COL_DATE     == "Data da Candidatura"
COL_VAGA     == "Vaga"
COL_EMPRESA  == "Nome da Empresa"
COL_LINK     == "Link da vaga"
COL_ORIGEM   == "Origem da Candidatura"
COL_PESSOAS  == "Pessoas da empresa adicionadas"
COL_LINKEDIN == "Linkedin da pessoa que mandei a mensagem"
COL_ULTIMO   == "Ultimo contato pelo linkedin"
COL_STATUS   == "Status"
COL_ENCODED  == "Status_encoded"

\* the ten columns of the CSV, in file order
Columns == <<COL_ID, COL_DATE, COL_VAGA, COL_EMPRESA, COL_LINK, COL_ORIGEM,
             COL_PESSOAS, COL_LINKEDIN, COL_ULTIMO, COL_STATUS>>

\* the six columns selected as features, in the order of the selection
FeatureColumns == <<COL_DATE, COL_VAGA, COL_ORIGEM, COL_PESSOAS, COL_LINKEDIN,
                    COL_ULTIMO>>

\* the options of the 'Status' selectbox
StatusOptions == <<"Aguardando", "Entrevista", "Rejeitado", "Contratado">>

Range(s) == {s[i] : i \in DOMAIN s}

\* a missing value (float nan) in a DataFrame cell
NaN == "<NaN>"

\* the strings pandas.read_csv reads as a missing value by default
NaStrings == {"", "#N/A", "#N/A N/A", "#NA", "-1.#IND", "-1.#QNAN", "-NaN",
              "-nan", "1.#IND", "1.#QNAN", "<NA>", "N/A", "NA", "NULL", "NaN",
              "None", "n/a", "nan", "null"}

\* Python's order (by code point) on the strings the model uses
SortOrder == <<"", "Aguardando", "Contratado", "Entrevista", "NA", "Rejeitado",
               "acme", "ana", "bia", "dev", "qa", "site", "url", "v1", "x">>

Rank(s) == CHOOSE i \in DOMAIN SortOrder : SortOrder[i] = s

\* sorted(set) for strings: the elements in ascending order
RECURSIVE Sorted(_)
Sorted(S) ==
    IF S = {} THEN <<>>
    ELSE LET m == CHOOSE x \in S : \A y \in S : Rank(x) <= Rank(y)
         IN  <<m>> \o Sorted(S \ {m})

\* ascending order for a set of integers
RECURSIVE SortedInts(_)
SortedInts(S) ==
    IF S = {} THEN <<>>
    ELSE LET m == CHOOSE x \in S : \A y \in S : x <= y
         IN  <<m>> \o SortedInts(S \ {m})

IndexOf(seq, x) == CHOOSE i \in DOMAIN seq : seq[i] = x

(* A date cell.  fmt says how the day is written:                          *)
(*   "iso"      'YYYY-MM-DD'            (text)                             *)
(*   "isotime"  'YYYY-MM-DD 00:00:00'   (text)                             *)
(*   "other"    text that is no ISO date, such as '05/01/2024'             *)
(*   "ts"       a datetime / Timestamp object in memory                    *)
(*   "nat"      NaT, what errors='coerce' leaves for unparseable text      *)
(* day is the proleptic Gregorian ordinal (datetime.toordinal), 0 if none. *)
DateCell(f, d) == [fmt |-> f, day |-> d]
NaT == DateCell("nat", 0)

\* the days the model enters: 2024-01-05 and 2024-01-06 as ordinals
Days == <<738890, 738891>>

Row(id, date, vaga, empresa, link, origem, pessoas, linkedin, ultimo, status) ==
    [c \in Range(Columns) |->
        CASE c = COL_ID       -> id
          [] c = COL_DATE     -> date
          [] c = COL_VAGA     -> vaga
          [] c = COL_EMPRESA  -> empresa
          [] c = COL_LINK     -> link
          [] c = COL_ORIGEM   -> origem
          [] c = COL_PESSOAS  -> pessoas
          [] c = COL_LINKEDIN -> linkedin
          [] c = COL_ULTIMO   -> ultimo
          [] c = COL_STATUS   -> status]

\* r with column c set to v (the column is added when r has none)
SetCol(r, c, v) == [k \in (DOMAIN r) \cup {c} |-> IF k = c THEN v ELSE r[k]]

-----------------------------------------------------------------------------
(* The CSV store *)

\* the file of the user's key: absent, or its rows under the header line
NoFile == [exists |-> FALSE, rows |-> <<>>]
FileOf(rows) == [exists |-> TRUE, rows |-> rows]

\* pandas.read_csv on one cell: default NA strings become NaN, a date stays text
ReadCell(c, v) == IF c = COL_DATE THEN v ELSE IF v \in NaStrings THEN NaN ELSE v

\* pandas.read_csv(file_path): the table of a file
read_csv(f) == [i \in DOMAIN f |-> [c \in Range(Columns) |-> ReadCell(c, f[i][c])]]

\* whether DataFrame.to_csv finds the date column to be datetime64 (every
\* cell a Timestamp) rather than object (text, or text mixed with Timestamps)
DateColumnIsDatetime(table, emptyKept) ==
    /\ \A i \in DOMAIN table : table[i][COL_DATE].fmt = "ts"
    /\ emptyKept

\* DataFrame.to_csv on one cell: NaN is written as the empty string; a
\* Timestamp as a date in a datetime64 column, as str(Timestamp) otherwise
WriteCell(c, v, isDatetime) ==
    IF c = COL_DATE
    THEN IF v.fmt = "ts"
         THEN DateCell(IF isDatetime THEN "iso" ELSE "isotime", v.day)
         ELSE v
    ELSE IF v = NaN THEN "" ELSE v

\* DataFrame.to_csv(path, index=False): the file of a table
to_csv(table, isDatetime) ==
    [i \in DOMAIN table |->
        [c \in Range(Columns) |-> WriteCell(c, table[i][c], isDatetime)]]

\* load_data, lines 40-42: a header-only file is written when there is none
load_data_file(f) == IF ~f.exists THEN FileOf(<<>>) ELSE f

\* load_data, line 43
load_data(f) == read_csv(load_data_file(f).rows)

\* pd.concat([df, new_data], ignore_index=True) followed by save_data: the
\* old rows are text cells and the new row holds a Timestamp, so the date
\* column stays datetime64 only when df was empty and the build ignores the
\* empty frame's object dtype
save_data(table) ==
    FileOf(to_csv(table, DateColumnIsDatetime(table, ~build.emptyConcatObject)))

-----------------------------------------------------------------------------
(* Results.  Python's None and the objects the pipeline returns are records *)
(* with an isNone field, so that 'x is None' is a test on one type.         *)

None == [isNone |-> TRUE]
IsNone(x) == x.isNone

\* len(y) below this refuses to train
MinRows == 5
\* the folds asked of cross_val_score: min(5, len(y))
CvFolds == 5
\* test_size=0.2, in percent
TestSizePct == 20

Min(a, b) == IF a < b THEN a ELSE b

\* an exception a library call may raise inside a stage, chosen by the
\* environment: none, or one in prepare_features' try, train_model's try or
\* predict's try
Faults == {"none", "encode", "fit", "predict"}

-----------------------------------------------------------------------------
(* Feature Encoder *)

\* LabelEncoder.fit: classes_ is the sorted list of the distinct labels
LabelClasses(data) == Sorted({data[i][COL_STATUS] : i \in DOMAIN data})

\* LabelEncoder.transform: a label's position in classes_, from 0
LabelEncode(classes, s) == IndexOf(classes, s) - 1

\* pd.to_datetime(cell, format='%Y-%m-%d', errors='coerce'): text that is
\* exactly a date parses; a date followed by ' 00:00:00' parses only where
\* the installed pandas does not match an ISO format exactly
ParseDate(cell) ==
    CASE cell.fmt = "iso"     -> DateCell("ts", cell.day)
      [] cell.fmt = "ts"      -> DateCell("ts", cell.day)
      [] cell.fmt = "isotime" -> IF build.strictIso THEN NaT
                                 ELSE DateCell("ts", cell.day)
      [] OTHER                -> NaT

\* lines 72 and 74: the two columns prepare_features assigns on the caller's
\* table before it rebinds data
EncodeInPlace(data) ==
    LET classes == LabelClasses(data)
    IN  [i \in DOMAIN data |->
            SetCol(SetCol(data[i], COL_ENCODED,
                          LabelEncode(classes, data[i][COL_STATUS])),
                   COL_DATE, ParseDate(data[i][COL_DATE]))]

\* the subsequence of the elements of seq at the positions in keep
RECURSIVE SelectIdx(_, _, _)
SelectIdx(seq, keep, i) ==
    IF i > Len(seq) THEN <<>>
    ELSE (IF i \in keep THEN <<seq[i]>> ELSE <<>>) \o SelectIdx(seq, keep, i + 1)

\* data.dropna(subset=['Data da Candidatura'])
DropNaT(data) ==
    SelectIdx(data, {i \in DOMAIN data : data[i][COL_DATE] # NaT}, 1)

\* a column read_csv typed float64: the table has rows and every cell of
\* the column is missing.  Any other text column is object.
IsFloatColumn(full, c) ==
    /\ c # COL_DATE
    /\ Len(full) > 0
    /\ \A i \in DOMAIN full : full[i][c] = NaN

\* the levels pd.get_dummies finds in column c: the distinct values present,
\* sorted, missing values left out
Levels(rows, c) == Sorted({rows[i][c] : i \in DOMAIN rows} \ {NaN})

\* drop_first=True: the first level of each column gets no indicator
DropFirst(lv) == IF lv = <<>> THEN <<>> ELSE Tail(lv)

\* a column of the encoded frame is named by a pair: <<column, "">> for a
\* numeric column kept as is, <<column, level>> for the indicator
\* 'column_level'
DummyNames(c, lv) == [j \in DOMAIN lv |-> <<c, lv[j]>>]

\* whether get_dummies leaves feature column c as it is
IsNumericColumn(full, c) == c = COL_DATE \/ IsFloatColumn(full, c)

RECURSIVE DummyColumns(_, _, _)
DummyColumns(rows, full, k) ==
    IF k > Len(FeatureColumns) THEN <<>>
    ELSE (IF IsNumericColumn(full, FeatureColumns[k]) THEN <<>>
          ELSE DummyNames(FeatureColumns[k],
                          DropFirst(Levels(rows, FeatureColumns[k]))))
         \o DummyColumns(rows, full, k + 1)

RECURSIVE NumericColumns(_, _)
NumericColumns(full, k) ==
    IF k > Len(FeatureColumns) THEN <<>>
    ELSE (IF IsNumericColumn(full, FeatureColumns[k])
          THEN << <<FeatureColumns[k], "">> >>
          ELSE <<>>)
         \o NumericColumns(full, k + 1)

\* the value of encoded column col in row r
CellValue(r, col) ==
    IF col[2] = "" THEN r[col[1]]
    ELSE IF r[col[1]] = col[2] THEN 1 ELSE 0

\* the frame with the given columns over rows
FrameOf(rows, cols) ==
    [columns |-> cols,
     values  |-> [i \in DOMAIN rows |->
                     [j \in DOMAIN cols |-> CellValue(rows[i], cols[j])]]]

\* pd.get_dummies(X, drop_first=True): the numeric columns first, then the
\* indicators of each text column in turn.  rows hold the day ordinal in
\* the date column; full is the table whose dtypes the columns carry.
get_dummies(rows, full) ==
    FrameOf(rows, NumericColumns(full, 1) \o DummyColumns(rows, full, 1))

\* line 76: the date column as day ordinals
WithOrdinal(rows) ==
    [i \in DOMAIN rows |-> SetCol(rows[i], COL_DATE, rows[i][COL_DATE].day)]

\* the frame prepare_features hands to the scaler, before scaling
EncodedFrame(data) == get_dummies(WithOrdinal(DropNaT(EncodeInPlace(data))), data)

\* StandardScaler().fit: remembers the columns it was fitted on
FitScaler(frame) ==
    [isNone |-> FALSE, n_features_in |-> Len(frame.columns),
     feature_names_in |-> frame.columns]

NonePrepared(raised, msgs) ==
    [X |-> None, y |-> None, scaler |-> None, X_columns |-> None,
     raised |-> raised, msgs |-> msgs]

\* lines 78-86 on the rows that kept a date and their encoded frame.
\* StandardScaler.fit_transform rejects a frame of 0 rows.
PrepareResult(valid, frame, fault) ==
    IF fault = "encode" \/ Len(valid) = 0
    THEN NonePrepared(TRUE, <<>>)
    ELSE [X |-> [isNone |-> FALSE, scaled |-> frame.values],
          y |-> [isNone |-> FALSE,
                 values |-> [i \in DOMAIN valid |-> valid[i][COL_ENCODED]]],
          scaler |-> FitScaler(frame),
          X_columns |-> [isNone |-> FALSE, names |-> frame.columns],
          raised |-> FALSE, msgs |-> <<>>]

\* the try body of prepare_features; raised says an exception left it
PrepareBody(data, fault) ==
    PrepareResult(DropNaT(EncodeInPlace(data)), EncodedFrame(data), fault)

\* prepare_features without its except clause
CatchPrepare_reraise(r) == r

\* lines 87-89: except Exception reports and returns four None
CatchPrepare(r) ==
    IF r.raised THEN NonePrepared(FALSE, <<"Erro ao preparar os dados">>) ELSE r

\* prepare_features
prepare_features(data, fault) == CatchPrepare(PrepareBody(data, fault))

-----------------------------------------------------------------------------
(* Classifier Trainer *)

\* n_estimators=100
NEstimators == 100

\* train_test_split's test size: ceil(test_size * n)
TestCount(n) == (n * TestSizePct + 99) \div 100

\* the test sets train_test_split(..., random_state=42) may draw from n rows:
\* the shuffle is the generator's, so every set of the right size is taken
Splits(n) == {S \in SUBSET (1 .. n) : Cardinality(S) = TestCount(n)}

\* the number of rows of each label
ClassCount(y, k) == Cardinality({i \in DOMAIN y : y[i] = k})

\* StratifiedKFold(n_splits).split raises ValueError when n_splits exceeds
\* the number of members of every class ("n_splits cannot be greater than
\* the number of members in each class")
StratifiedKFoldRaises(y, n_splits) ==
    \A k \in Range(y) : n_splits > ClassCount(y, k)

\* RandomForestClassifier.fit(X_train, y_train): classes_ are the sorted
\* distinct labels of the training part
FitForest(y, testIdx, width) ==
    [isNone |-> FALSE,
     classes_ |-> SortedInts({y[i] : i \in (DOMAIN y) \ testIdx}),
     n_features_in_ |-> width,
     n_estimators |-> NEstimators]

NoneResult(msgs, raised) ==
    [model |-> None, scaler |-> None, X_columns |-> None, acc |-> -1,
     raised |-> raised, msgs |-> msgs]

\* the mean cross-validation accuracies a run may report, in 1/ProbSteps
Accuracies == 0 .. ProbSteps

\* the try body of train_model (lines 115-123): testIdx is the test part the
\* split drew, acc the mean of the fold scores
TrainBody(pf, fault, testIdx, acc) ==
    IF fault = "fit"
       \/ StratifiedKFoldRaises(pf.y.values, Min(CvFolds, Len(pf.y.values)))
    THEN NoneResult(pf.msgs, TRUE)
    ELSE [model |-> FitForest(pf.y.values, testIdx, Len(pf.X_columns.names)),
          scaler |-> pf.scaler, X_columns |-> pf.X_columns, acc |-> acc,
          raised |-> FALSE,
          msgs |-> pf.msgs \o <<"Acuracia media do modelo">>]

\* lines 124-126: except Exception reports and returns three None
CatchTrain(pf, r) ==
    IF r.raised THEN NoneResult(pf.msgs \o <<"Erro ao treinar o modelo">>, FALSE)
    ELSE r

\* lines 107-126 of train_model, on what prepare_features returned
TrainGate(pf, fault, testIdx, acc) ==
    IF pf.raised THEN NoneResult(pf.msgs, TRUE)
    ELSE IF IsNone(pf.X) \/ IsNone(pf.y) THEN NoneResult(pf.msgs, FALSE)
    ELSE IF Len(pf.y.values) < MinRows
    THEN NoneResult(pf.msgs \o <<"Dados insuficientes">>, FALSE)
    ELSE CatchTrain(pf, TrainBody(pf, fault, testIdx, acc))

\* train_model
train_model(data, fault, testIdx, acc) ==
    TrainGate(prepare_features(data, fault), fault, testIdx, acc)

\* the number of rows train_model's split works on
ValidCount(data) == Len(DropNaT(EncodeInPlace(data)))

\* the exceptions that can occur in a run that only trains
TrainFaults == {"none", "encode", "fit"}

\* the label vector y of the rows that keep a date
Labels(data) ==
    LET valid == DropNaT(EncodeInPlace(data))
    IN  [i \in DOMAIN valid |-> valid[i][COL_ENCODED]]

\* the labels left in the training part when testIdx is the test part
TrainLabels(y, testIdx) == {y[i] : i \in (DOMAIN y) \ testIdx}

\* one test set of all for each set of labels the training part can be
\* left with: the fitted model depends on the split only through them
SplitRepresentatives(y, all) ==
    {CHOOSE t \in all : TrainLabels(y, t) = ls :
        ls \in {TrainLabels(y, t) : t \in all}}

\* the test sets the split may draw when train_model reaches line 115, and
\* a placeholder when train_model returns or fails before
SplitChoices(data, fault) ==
    IF fault = "none" /\ ValidCount(data) >= MinRows
    THEN SplitRepresentatives(Labels(data), Splits(ValidCount(data)))
    ELSE {{}}

\* the mean accuracies cross_val_score may return when it is reached and
\* does not raise, and a placeholder otherwise
AccuracyChoices(data, fault) ==
    IF /\ fault = "none"
       /\ ValidCount(data) >= MinRows
       /\ ~IsNone(train_model(data, fault, {}, 0).model)
    THEN Accuracies ELSE {0}

-----------------------------------------------------------------------------
(* Predictor *)

\* the five text inputs predict requires
PredictTextColumns == <<COL_VAGA, COL_ORIGEM, COL_PESSOAS, COL_LINKEDIN, COL_ULTIMO>>

\* line 145: every text input is non-empty
PredictFilled(inputs) == \A c \in Range(PredictTextColumns) : inputs[c] # ""

\* predict without the reindex: the row keeps its own expansion
reindex_skipped(frame, names) ==
    [columns |-> frame.columns, values |-> frame.values[1]]

\* input_features.reindex(columns=X_columns, fill_value=0) on a one-row
\* frame: the row's value where it has the column, 0 where it has not
reindex(frame, names) ==
    [columns |-> names,
     values  |-> [j \in DOMAIN names |->
                     IF names[j] \in Range(frame.columns)
                     THEN frame.values[1][IndexOf(frame.columns, names[j])]
                     ELSE 0]]

\* scaler.transform checks the frame against the columns it was fitted on
ScalerRejects(scaler, frame) ==
    \/ Len(frame.columns) # scaler.n_features_in
    \/ frame.columns # scaler.feature_names_in

\* the rows model.predict_proba may return: one probability per class of
\* classes_, in 1/ProbSteps, summing to one
ProbaVectors(k) ==
    {v \in [1 .. k -> 0 .. ProbSteps] :
        LET RECURSIVE Sum(_)
            Sum(i) == IF i = 0 THEN 0 ELSE v[i] + Sum(i - 1)
        IN  Sum(k) = ProbSteps}

\* the threshold taken as probabilidade >= 0.50
IsSuccess_ge(p) == 2 * p >= ProbSteps

\* line 164: probabilidade > 0.50, on a probability in 1/ProbSteps
IsSuccess(p) == 2 * p > ProbSteps

\* lines 164-167: the message for a probability
Verdict(p) ==
    IF IsSuccess(p) THEN [kind |-> "success", text |-> "Resultado: Sucesso"]
    ELSE [kind |-> "warning", text |-> "Resultado: Nao desista"]

NoFrame == [columns |-> <<>>, values |-> <<>>]

\* what predict did: called says predict ran; outcome is "form" (inputs
\* rendered, 'Prever' not pressed), "unfilled", "success", "warning" or
\* "error"; handed is the frame given to scaler.transform; probabilidade is
\* in 1/ProbSteps (-1: none); column is the index taken from the row of
\* probabilities (-1: none); pct is the percentage shown, in hundredths
NoPredict ==
    [called |-> FALSE, outcome |-> "none", handed |-> NoFrame,
     probabilidade |-> -1, column |-> -1, pct |-> -1, text |-> ""]

\* the single row of lines 149-151, the date as its ordinal
InputRow(inputs) ==
    [c \in Range(FeatureColumns) |->
        IF c = COL_DATE THEN inputs[c].day ELSE inputs[c]]

\* line 153: the one-row frame, one-hot expanded
InputFrame(inputs) == get_dummies(<<InputRow(inputs)>>, <<InputRow(inputs)>>)

\* lines 159-162: the index taken from the row of probabilities
ProbaColumn(proba) == IF Len(proba) > 1 THEN 1 ELSE 0

\* lines 164-167 on probability p taken at index column
Shown(aligned, p, column) ==
    [called |-> TRUE, outcome |-> Verdict(p).kind, handed |-> aligned,
     probabilidade |-> p, column |-> column,
     pct |-> (p * 10000) \div ProbSteps, text |-> Verdict(p).text]

\* lines 155-169 on the aligned row: an exception is reported as a
\* prediction error
PredictTry(scaler, aligned, fault, proba) ==
    IF fault = "predict" \/ ScalerRejects(scaler, aligned)
    THEN [NoPredict EXCEPT !.called = TRUE, !.outcome = "error",
                           !.handed = aligned]
    ELSE Shown(aligned, proba[ProbaColumn(proba) + 1], ProbaColumn(proba))

\* predict: inputs are the six widgets' values, prever whether 'Prever' is
\* True in this run, proba the row predict_proba returns
predict(model, scaler, X_columns, inputs, prever, fault, proba) ==
    IF ~prever THEN [NoPredict EXCEPT !.called = TRUE, !.outcome = "form"]
    ELSE IF ~PredictFilled(inputs)
    THEN [NoPredict EXCEPT !.called = TRUE, !.outcome = "unfilled"]
    ELSE PredictTry(scaler, reindex(InputFrame(inputs), X_columns.names),
                    fault, proba)

-----------------------------------------------------------------------------
(* The page: one execution of run() *)

\* the default of the 'Digite seu nome' widget
DefaultUser == "seu nome"

\* the check of line 193 with nome_empresa left out
AddFilled_without_empresa(form) ==
    \A c \in {COL_ID, COL_VAGA, COL_LINK, COL_ORIGEM, COL_PESSOAS, COL_LINKEDIN,
              COL_ULTIMO} : form[c] # ""

\* line 193: every text field of the add form is non-empty (the date picker
\* always holds a date)
AddFilled(form) ==
    \A c \in {COL_ID, COL_VAGA, COL_EMPRESA, COL_LINK, COL_ORIGEM, COL_PESSOAS,
              COL_LINKEDIN, COL_ULTIMO} : form[c] # ""

\* lines 197-209: the one-row frame new_data; the date is a datetime
NewData(form) == [form EXCEPT ![COL_DATE] = DateCell("ts", form[COL_DATE].day)]

\* the state of predict's widgets when nothing was typed: today, and
\* empty text inputs
DefaultFields ==
    [c \in Range(FeatureColumns) |->
        IF c = COL_DATE THEN DateCell("ts", Days[1]) ELSE ""]

\* st.button(label): True only in the run its own click triggered
Button(trig, label) == trig = label

NotTrained == [called |-> FALSE, result |-> NoneResult(<<>>, FALSE)]

\* what one run leaves: the file, the local table, the results and the page
Outcome(f, table, tr, pr, vw, fl, sc, saved, exc) ==
    [file |-> f, df |-> table, trained |-> tr, pred |-> pr, view |-> vw,
     fields |-> fl, screen |-> sc, saved |-> saved, crashed |-> exc]

\* the table after train_model(df): prepare_features has assigned the
\* encoded status and the parsed dates on it, unless it failed at its first
\* call
AfterTraining(table, fault) ==
    IF fault = "encode" THEN table ELSE EncodeInPlace(table)

\* lines 211-213: the row is appended and the table saved
AddSaved(grown) ==
    [df |-> grown, file |-> save_data(grown),
     msgs |-> <<"Vaga adicionada com sucesso!">>, saved |-> TRUE]

\* lines 179-215: the add form.  Returns the table, the file and the
\* messages after the form block.
AddBlock(trig, form, table, f) ==
    IF ~Button(trig, "Adicionar Vaga")
    THEN [df |-> table, file |-> f, msgs |-> <<>>, saved |-> FALSE]
    ELSE IF ~AddFilled(form)
    THEN [df |-> table, file |-> f,
          msgs |-> <<"Por favor, preencha todos os campos.">>, saved |-> FALSE]
    ELSE AddSaved(Append(table, NewData(form)))

\* lines 217-219: 'Mostrar Vagas'
ShowBlock(trig) == IF Button(trig, "Mostrar Vagas") THEN <<"st.write(df)">> ELSE <<>>

\* an exception left train_model: the run ends there
Escaped(add, tr, dfT, sc) ==
    Outcome(add.file, dfT, [called |-> TRUE, result |-> tr], NoPredict,
            "page", DefaultFields, sc \o <<"Traceback">>, add.saved, TRUE)

\* lines 222-227: 'Treinar Modelo'
TrainBlock(add, tr, dfT, sc) ==
    IF tr.raised THEN Escaped(add, tr, dfT, sc)
    ELSE Outcome(add.file, dfT, [called |-> TRUE, result |-> tr], NoPredict,
                 "page", DefaultFields,
                 sc \o tr.msgs \o
                   (IF ~IsNone(tr.model)
                    THEN <<"Modelo treinado com sucesso!">>
                    ELSE <<"Erro ao treinar o modelo. Adicione mais dados e tente novamente.">>),
                 add.saved, FALSE)

\* line 233: predict ran and rendered its widgets
Predicted(add, tr, dfT, sc, fieldsIn, pr) ==
    Outcome(add.file, dfT, [called |-> TRUE, result |-> tr], pr,
            "page+predict", fieldsIn,
            sc \o tr.msgs \o (IF pr.outcome = "form" THEN <<>> ELSE <<pr.outcome>>),
            add.saved, FALSE)

\* lines 230-235: 'Fazer Previsao'
FazerBlock(trig, add, tr, dfT, sc, fieldsIn, fault, proba) ==
    IF tr.raised THEN Escaped(add, tr, dfT, sc)
    ELSE IF ~IsNone(tr.model)
    THEN Predicted(add, tr, dfT, sc, fieldsIn,
                   predict(tr.model, tr.scaler, tr.X_columns, fieldsIn,
                           Button(trig, "Prever"), fault, proba))
    ELSE Outcome(add.file, dfT, [called |-> TRUE, result |-> tr], NoPredict,
                 "page", DefaultFields,
                 sc \o tr.msgs \o
                   <<"Modelo nao treinado. Treine o modelo antes de fazer previsoes.">>,
                 add.saved, FALSE)

\* lines 217-235 after the form block: add is what the form block left, tr
\* what train_model(df) returns if called, dfT the table after that call
Buttons(trig, add, tr, dfT, sc, fieldsIn, fault, proba) ==
    IF Button(trig, "Treinar Modelo") THEN TrainBlock(add, tr, dfT, sc)
    ELSE IF Button(trig, "Fazer Previsao")
    THEN FazerBlock(trig, add, tr, dfT, sc, fieldsIn, fault, proba)
    ELSE Outcome(add.file, add.df, NotTrained, NoPredict, "page",
                 DefaultFields, sc, add.saved, FALSE)

\* lines 179-235 on the form block's result
AfterAdd(trig, add, fieldsIn, fault, testIdx, acc, proba) ==
    Buttons(trig, add, train_model(add.df, fault, testIdx, acc),
            AfterTraining(add.df, fault), add.msgs \o ShowBlock(trig),
            fieldsIn, fault, proba)

\* lines 177-235 on the file load_data found or created
AfterLoad(trig, f0, form, fieldsIn, fault, testIdx, acc, proba) ==
    AfterAdd(trig, AddBlock(trig, form, read_csv(f0.rows), f0), fieldsIn,
             fault, testIdx, acc, proba)

\* run(): trig is the widget whose change or click triggered the run, uid
\* the name widget's value, form the add form's values, fieldsIn the state
\* of predict's widgets; fault, testIdx, acc and proba are what the library
\* calls of this run do
run(trig, uid, form, fieldsIn, fault, testIdx, acc, proba) ==
    IF uid = ""
    THEN Outcome(file, <<>>, NotTrained, NoPredict, "name", DefaultFields,
                 <<"Por favor, insira um ID de usuario para continuar.">>,
                 FALSE, FALSE)
    ELSE AfterLoad(trig, load_data_file(file), form, fieldsIn, fault, testIdx,
                   acc, proba)

-----------------------------------------------------------------------------
(* The page under Streamlit's rerun model *)

Builds == [strictIso : BOOLEAN, emptyConcatObject : BOOLEAN]

\* a stored row as the page wrote it: the first row of a file was written
\* from a one-row frame, every later one after a concat with text rows
Stored(i, day, vaga, linkedin, status) ==
    Row("v1",
        DateCell(IF i = 1 /\ ~build.emptyConcatObject THEN "iso" ELSE "isotime", day),
        vaga, "acme", "url", "site", "x", linkedin, "x", status)

\* the files a session may start from: none, a header-only one, five rows
\* split 3/2 between two statuses, six rows split 5/1
InitialFiles ==
    {NoFile,
     FileOf(<<>>),
     FileOf([i \in 1 .. 5 |->
               Stored(i, Days[1], IF i = 2 THEN "qa" ELSE "dev", "ana",
                      IF i <= 3 THEN "Rejeitado" ELSE "Contratado")]),
     FileOf([i \in 1 .. 6 |->
               Stored(i, Days[1], IF i = 2 THEN "qa" ELSE "dev", "ana",
                      IF i <= 5 THEN "Rejeitado" ELSE "Contratado")])}

\* the text fields the add form asks for
AddTextColumns ==
    {COL_ID, COL_VAGA, COL_EMPRESA, COL_LINK, COL_ORIGEM, COL_PESSOAS,
     COL_LINKEDIN, COL_ULTIMO}

\* the user left no text field of the form empty
NoFieldEmpty(form) == \A c \in AddTextColumns : form[c] # ""

\* the add forms a user submits: complete ones, and complete ones with one
\* text field left empty
FilledForms ==
    {Row("v1", DateCell("ts", Days[2]), "dev", "acme", "url", "site", "x", l, "x", st) :
        l \in {"bia", "NA"}, st \in {"Rejeitado", "Contratado"}}

AddForms ==
    FilledForms \cup
    {[f EXCEPT ![c] = ""] : f \in FilledForms, c \in AddTextColumns}

NoForm == Row("", DateCell("ts", Days[1]), "", "", "", "", "", "", "", "Aguardando")

\* what a user types into one of predict's text inputs
FieldTexts == {"dev", "qa"}

\* nothing has run yet
NoTrigger == [kind |-> "start", filled |-> FALSE, saved |-> FALSE, fault |-> "none"]

Init ==
    /\ build \in Builds
    /\ userId = DefaultUser
    /\ file \in InitialFiles
    /\ initial = file.rows
    /\ added = <<>>
    /\ df = <<>>
    /\ trained = NotTrained
    /\ pred = NoPredict
    /\ view = "closed"
    /\ fields = DefaultFields
    /\ screen = <<>>
    /\ trigger = NoTrigger
    /\ crashed = FALSE

\* the state after one run
Apply(out, kind, uid, filled, fault) ==
    /\ userId' = uid
    /\ file' = out.file
    /\ added' = IF out.saved THEN Append(added, out.file.rows[Len(out.file.rows)])
                ELSE added
    /\ df' = out.df
    /\ trained' = out.trained
    /\ pred' = out.pred
    /\ view' = out.view
    /\ fields' = IF out.view = "page+predict" THEN out.fields ELSE DefaultFields
    /\ screen' = out.screen
    /\ trigger' = [kind |-> kind, filled |-> filled, saved |-> out.saved,
                    fault |-> fault]
    /\ crashed' = out.crashed
    /\ UNCHANGED <<build, initial>>

PageShown == view \in {"page", "page+predict"}

\* the first run of a session
Open ==
    /\ view = "closed"
    /\ Apply(run("", userId, NoForm, fields, "none", {}, 0, <<ProbSteps>>),
             "open", userId, FALSE, "none")

\* the user changes the name widget
EditUser ==
    /\ view # "closed"
    /\ \E uid \in {"", DefaultUser} :
        /\ uid # userId
        /\ Apply(run("Digite seu nome", uid, NoForm, fields, "none", {}, 0,
                     <<ProbSteps>>),
                 "user", uid, FALSE, "none")

\* the user submits the add form
SubmitAdd ==
    /\ PageShown
    /\ \E form \in AddForms :
        /\ Len(added) < MaxAdds \/ ~AddFilled(form)
        /\ Apply(run("Adicionar Vaga", userId, form, fields, "none", {}, 0,
                     <<ProbSteps>>),
                 "add", userId, NoFieldEmpty(form), "none")

ClickShow ==
    /\ PageShown
    /\ Apply(run("Mostrar Vagas", userId, NoForm, fields, "none", {}, 0,
                 <<ProbSteps>>),
             "show", userId, FALSE, "none")

ClickTrain ==
    /\ PageShown
    /\ \E fault \in TrainFaults :
       \E testIdx \in SplitChoices(load_data(file), fault),
          acc \in AccuracyChoices(load_data(file), fault) :
          Apply(run("Treinar Modelo", userId, NoForm, fields, fault, testIdx,
                    acc, <<ProbSteps>>),
                "train", userId, FALSE, fault)

ClickFazer ==
    /\ PageShown
    /\ \E fault \in TrainFaults :
       \E testIdx \in SplitChoices(load_data(file), fault),
          acc \in AccuracyChoices(load_data(file), fault) :
          Apply(run("Fazer Previsao", userId, NoForm, fields, fault, testIdx,
                    acc, <<ProbSteps>>),
                "fazer", userId, FALSE, fault)

\* the user types into one of predict's inputs: the widget's change reruns
\* the script
EditField ==
    /\ view = "page+predict"
    /\ \E c \in Range(PredictTextColumns), v \in FieldTexts :
        Apply(run(c, userId, NoForm, [fields EXCEPT ![c] = v], "none", {}, 0,
                  <<ProbSteps>>),
              "field", userId, FALSE, "none")

ClickPrever ==
    /\ view = "page+predict"
    /\ \E fault \in Faults, proba \in ProbaVectors(2) :
        Apply(run("Prever", userId, NoForm, fields, fault, {}, 0, proba),
              "prever", userId, FALSE, fault)

Next ==
    \/ Open
    \/ EditUser
    \/ SubmitAdd
    \/ ClickShow
    \/ ClickTrain
    \/ ClickFazer
    \/ EditField
    \/ ClickPrever

Spec == Init /\ [][Next]_vars


-----------------------------------------------------------------------------
(* train_model and predict called directly *)

\* the rows direct calls draw their tables from: dates that parse, a date
\* that does not, a date with a time part; two roles; three statuses
PoolRow(k) ==
    CASE k = 1 -> Row("v1", DateCell("iso", Days[1]), "dev", "acme", "url",
                      "site", "x", "ana", "x", "Rejeitado")
      [] k = 2 -> Row("v1", DateCell("iso", Days[2]), "qa", "acme", "url",
                      "site", "x", "ana", "x", "Rejeitado")
      [] k = 3 -> Row("v1", DateCell("iso", Days[1]), "dev", "acme", "url",
                      "site", "x", "ana", "x", "Contratado")
      [] k = 4 -> Row("v1", DateCell("iso", Days[2]), "qa", "acme", "url",
                      "site", "x", "ana", "x", "Contratado")
      [] k = 5 -> Row("v1", DateCell("other", 0), "dev", "acme", "url",
                      "site", "x", "ana", "x", "Rejeitado")
      [] OTHER -> Row("v1", DateCell("isotime", Days[2]), "qa", "acme", "url",
                      "site", "x", "ana", "x", "Aguardando")

PoolKinds == 1 .. 6

\* the tables of at most MaxRows pool rows, rows of a kind together
PipeTables ==
    {[i \in DOMAIN ks |-> PoolRow(ks[i])] :
        ks \in {f \in UNION {[1 .. n -> PoolKinds] : n \in 0 .. MaxRows} :
                   \A i \in DOMAIN f : i = 1 \/ f[i - 1] <= f[i]}}

\* the records predict is given: a day, a role (or none typed), and the
\* other texts of the pool rows
PredictInputs ==
    {[c \in Range(FeatureColumns) |->
         CASE c = COL_DATE     -> DateCell("ts", d)
           [] c = COL_VAGA     -> v
           [] c = COL_ORIGEM   -> "site"
           [] c = COL_LINKEDIN -> "ana"
           [] OTHER            -> "x"] :
        d \in Range(Days), v \in {"dev", "qa", ""}}

\* save_data is not called at this level, so one dtype rule is taken
InitPipe ==
    /\ build \in {b \in Builds : ~b.emptyConcatObject}
    /\ userId = DefaultUser
    /\ file = NoFile
    /\ initial = <<>>
    /\ added = <<>>
    /\ df \in PipeTables
    /\ trained = NotTrained
    /\ pred = NoPredict
    /\ view = "call"
    /\ fields = DefaultFields
    /\ screen = <<>>
    /\ trigger = NoTrigger
    /\ crashed = FALSE

\* train_model(df)
CallTrain ==
    /\ view = "call"
    /\ ~trained.called
    /\ \E fault \in TrainFaults :
       \E testIdx \in SplitChoices(df, fault), acc \in AccuracyChoices(df, fault) :
          /\ trained' = [called |-> TRUE,
                         result |-> train_model(df, fault, testIdx, acc)]
          /\ df' = AfterTraining(df, fault)
          /\ screen' = trained'.result.msgs
          /\ crashed' = trained'.result.raised
          /\ trigger' = [NoTrigger EXCEPT !.kind = "train_model", !.fault = fault]
    /\ UNCHANGED <<build, userId, file, initial, added, pred, view, fields>>

\* predict(model, scaler, X_columns) on a trained model, 'Prever' pressed
CallPredict ==
    /\ view = "call"
    /\ trained.called
    /\ ~IsNone(trained.result.model)
    /\ ~pred.called
    /\ \E inputs \in PredictInputs, fault \in {"none", "predict"} :
       \E proba \in ProbaVectors(Len(trained.result.model.classes_)) :
          /\ pred' = predict(trained.result.model, trained.result.scaler,
                             trained.result.X_columns, inputs, TRUE, fault, proba)
          /\ fields' = inputs
          /\ screen' = <<pred'.outcome>>
          /\ trigger' = [NoTrigger EXCEPT !.kind = "predict", !.fault = fault]
    /\ UNCHANGED <<build, userId, file, initial, added, df, trained, view, crashed>>

NextPipe ==
    \/ CallTrain
    \/ CallPredict

SpecPipe == InitPipe /\ [][NextPipe]_vars

\* both levels: the page, and the direct calls
InitAll == Init \/ InitPipe

NextAll == Next \/ NextPipe

SpecAll == InitAll /\ [][NextAll]_vars


-----------------------------------------------------------------------------
(* Properties *)

Model == trained.result.model
Messages == Range(trained.result.msgs)

\* train_model has just been called directly, and no library call failed
\* for a reason outside the data
JustTrained == trigger.kind = "train_model" /\ trigger.fault = "none"

\* the statuses of the rows that keep a date
ValidStatuses(data) ==
    {r[COL_STATUS] : r \in Range(DropNaT(EncodeInPlace(data)))}

\* predict has just computed and shown a probability
JustPredicted == trigger.kind = "predict" /\ pred.probabilidade # -1

\* C1: for every table with at least 5 rows whose date parses and at least
\* 2 distinct statuses, train_model returns a model, a scaler and a column
\* list, and reports a mean accuracy in [0, 1]
C1_TrainingSucceeds ==
    (JustTrained /\ ValidCount(df) >= 5 /\ Cardinality(ValidStatuses(df)) >= 2)
    => /\ ~IsNone(Model)
       /\ ~IsNone(trained.result.scaler)
       /\ ~IsNone(trained.result.X_columns)
       /\ trained.result.acc \in 0 .. ProbSteps

\* C2: for every table with fewer than 5 rows whose date parses (0 to 4,
\* the empty table included), train_model returns (None, None, None), emits
\* the insufficient-data warning, and raises nothing
C2_TooFewRowsWarned ==
    (JustTrained /\ ValidCount(df) < 5)
    => /\ IsNone(Model)
       /\ IsNone(trained.result.scaler)
       /\ IsNone(trained.result.X_columns)
       /\ "Dados insuficientes" \in Messages
       /\ ~crashed

\* C3: after 'Fazer Previsao' on a table that trains, the user can fill the
\* prediction fields and press 'Prever', and the Predictor then runs: typing
\* into a field leaves the prediction form on the page with the typed value,
\* and the run a click on 'Prever' triggers calls predict and renders its
\* answer
C3_PredictorInvoked ==
    /\ trigger.kind = "field" => (view = "page+predict" /\ fields # DefaultFields)
    /\ trigger.kind = "prever"
         => (pred.called /\ pred.outcome \in {"unfilled", "success", "warning", "error"})

\* the positions of the rows that keep a date whose six feature values are
\* those of the record
TwinRows(data, inputs) ==
    {i \in DOMAIN DropNaT(EncodeInPlace(data)) :
        /\ DropNaT(EncodeInPlace(data))[i][COL_DATE].day = inputs[COL_DATE].day
        /\ \A c \in Range(PredictTextColumns) :
              DropNaT(EncodeInPlace(data))[i][c] = inputs[c]}

\* C4: a record whose six feature fields equal those of a training row is
\* handed to the scaler as the vector prepare_features encoded for that row
C4_SameEncoding ==
    JustPredicted
    => \A i \in TwinRows(df, fields) :
          pred.handed.values = EncodedFrame(df).values[i]

\* C5: the row handed to the scaler has the training-time columns, in their
\* order; a column the record's own expansion lacks holds 0, and a column
\* of the expansion that is not in the list is gone
C5_Aligned ==
    (trigger.kind = "predict" /\ pred.outcome \in {"success", "warning", "error"})
    => /\ pred.handed.columns = trained.result.X_columns.names
       /\ Len(pred.handed.values) = Len(trained.result.X_columns.names)
       /\ \A j \in DOMAIN pred.handed.values :
             \/ pred.handed.columns[j] \in Range(InputFrame(fields).columns)
             \/ pred.handed.values[j] = 0

\* a record naming a role was aligned to a column list wider than its own
\* expansion
C5_Witness ==
    /\ JustPredicted
    /\ fields[COL_VAGA] = "qa"
    /\ Len(trained.result.X_columns.names) > Len(InputFrame(fields).columns)
    /\ pred.handed.values[2] = 0

\* C6: an add submission with a required text field empty shows the 'fill
\* all fields' warning, does not call save_data, and leaves the file as it
\* was
C6_RejectedAddKeepsFile ==
    [][(trigger'.kind = "add" /\ ~trigger'.filled)
        => /\ file' = file
           /\ ~trigger'.saved
           /\ added' = added
           /\ "Por favor, preencha todos os campos." \in Range(screen')]_vars

\* a submission with an empty field was handled on a file that holds rows
C6_Witness ==
    /\ trigger.kind = "add"
    /\ ~trigger.filled
    /\ Len(file.rows) > 0
    /\ Len(added) > 0

\* the run or call that just ended trained
Trained == trained.called /\ trigger.kind \in {"train", "fazer", "train_model"}

AllNone ==
    /\ IsNone(Model)
    /\ IsNone(trained.result.scaler)
    /\ IsNone(trained.result.X_columns)

\* C7: an exception raised while encoding, training or predicting is caught
\* in that stage, reported, and becomes a null result; nothing escapes
\* run(), and the page is rendered for the next interaction
C7_ExceptionsCaught ==
    /\ ~crashed
    /\ (Trained /\ (trigger.fault = "encode" \/ ValidCount(df) = 0))
         => (AllNone /\ "Erro ao preparar os dados" \in Range(screen))
    /\ (Trained /\ trigger.fault = "fit" /\ ValidCount(df) >= MinRows)
         => (AllNone /\ "Erro ao treinar o modelo" \in Range(screen))
    /\ (trigger.kind = "predict" /\ trigger.fault = "predict" /\ PredictFilled(fields))
         => (pred.outcome = "error" /\ pred.probabilidade = -1 /\ pred.text = "")
    /\ trigger.kind \in {"train", "fazer"} => view \in {"page", "page+predict"}

\* a click on 'Treinar Modelo' met an exception while encoding
C7_Witness ==
    /\ trigger.kind = "train"
    /\ trigger.fault = "encode"
    /\ Len(df) >= MinRows
    /\ AllNone
    /\ view = "page"

\* C8: a computed probability is in [0, 1]; the verdict is 'Sucesso' exactly
\* when it exceeds 0.50, so 0.50 itself is 'Nao desista'; the percentage is
\* shown with either verdict
C8_Verdict ==
    pred.probabilidade # -1
    => /\ pred.probabilidade \in 0 .. ProbSteps
       /\ pred.outcome \in {"success", "warning"}
       /\ pred.outcome = "success" <=> 2 * pred.probabilidade > ProbSteps
       /\ pred.text = "Resultado: Sucesso" <=> 2 * pred.probabilidade > ProbSteps
       /\ pred.text = "Resultado: Nao desista" <=> 2 * pred.probabilidade <= ProbSteps
       /\ pred.pct = (pred.probabilidade * 10000) \div ProbSteps

\* a probability of exactly 0.50 was shown as 'Nao desista'
C8_Witness ==
    /\ JustPredicted
    /\ 2 * pred.probabilidade = ProbSteps
    /\ pred.outcome = "warning"
    /\ pred.pct = 5000

\* the status whose probability predict took from the row of probabilities
SelectedStatus == LabelClasses(df)[Model.classes_[pred.column + 1] + 1]

\* C9: on a table whose statuses are exactly 'Rejeitado' and 'Contratado',
\* the probability predict reports as the chance of success is the one of
\* the class 'Contratado'
C9_ReportsContratado ==
    (JustPredicted /\ Range(LabelClasses(df)) = {"Rejeitado", "Contratado"})
    => SelectedStatus = "Contratado"

\* C10: the file holds the rows it held at the start followed by the rows
\* of the successful add submissions, in order, whatever was clicked
C10_FileIsInitialPlusAdded ==
    file.exists => file.rows = initial \o added


=============================================================================
